---- MODULE Spec2Model ----
(***************************************************************************)
(* A model of toolchain/nfa_dfa_conversion.py: the subset construction     *)
(* convert_nfa_to_dfa with epsilon_closure and move_nfa, and the CSV/JSON  *)
(* adapters around it.                                                     *)
(*                                                                         *)
(* A str is a sequence of characters, a character a one-character string  *)
(* or, for the characters that cannot be written so, the string of its     *)
(* escape (Latin1 below).                                                  *)
(* Python sets of ints are modelled by their hash table (CPython's         *)
(* setobject.c), because the order in which a set is iterated decides the  *)
(* order of the accept labels and the order of insertion into later sets.  *)
(* Python dicts are modelled as sequences of <<key, value>> pairs in       *)
(* insertion order.                                                        *)
(***************************************************************************)
EXTENDS Integers, Sequences, FiniteSets, TLC

VARIABLES
  nfa, alphabet,                  \* the arguments of convert_nfa_to_dfa
  pc,                             \* where the call stands
  dfa_transitions, dfa_accept,    \* its locals
  state_mapping, dfa_states,
  queue, current_index, sym_pos,
  dfa,                            \* the DFA it returns
  first,                          \* what an earlier call on the same arguments returned
  cl_states, cl_result, cl_again, \* an epsilon_closure call: argument, result, result of the result
  csvfile, jsonfile,              \* the files written from the DFA
  csv_table,                      \* the transitions read back from csvfile
  cl_stack, cl_pushed,            \* epsilon_closure step by step: its stack, the states pushed in the loop
  rows_in                         \* the rows a transitions file was made of

inputVars == <<nfa, alphabet>>
fileVars == <<csvfile, jsonfile, csv_table>>
stepVars == <<cl_stack, cl_pushed, rows_in>>
otherVars == <<first, cl_states, cl_result, cl_again, fileVars, stepVars>>
vars == <<nfa, alphabet, pc, dfa_transitions, dfa_accept, state_mapping,
          dfa_states, queue, current_index, sym_pos, dfa, first,
          cl_states, cl_result, cl_again, csvfile, jsonfile, csv_table,
          cl_stack, cl_pushed, rows_in>>

----------------------------------------------------------------------------
(* Generic helpers *)

Min(S) == CHOOSE x \in S : \A y \in S : x <= y

Range(s) == {s[i] : i \in 1..Len(s)}

\* the members of a set of ints in ascending order
RECURSIVE Ascending(_)
Ascending(S) == IF S = {} THEN <<>> ELSE <<Min(S)>> \o Ascending(S \ {Min(S)})

RECURSIVE SeqsUpTo(_, _)
SeqsUpTo(S, n) ==
  IF n = 0 THEN {<<>>}
  ELSE LET shorter == SeqsUpTo(S, n - 1)
       IN shorter \cup {Append(s, x) : s \in {t \in shorter : Len(t) = n - 1}, x \in S}

----------------------------------------------------------------------------
(* Python's set of ints: the open-addressing hash table of CPython.  A set *)
(* is its table, a sequence of mask+1 slots, each empty (NoKey) or holding *)
(* a key, <<key>>.  The code never removes a key, so there are no dummy    *)
(* entries and fill = used.                                                *)

LINEAR_PROBES == 9
PERTURB_SHIFT == 5
PySet_MINSIZE == 8
NoKey == <<>>

EmptyTable(size) == [j \in 1..size |-> NoKey]

\* set(): a new empty set
NewSet == EmptyTable(PySet_MINSIZE)

Used(tab) == Cardinality({j \in 1..Len(tab) : tab[j] # NoKey})

\* the keys of a set, as a mathematical set
Elems(tab) == {tab[j][1] : j \in {k \in 1..Len(tab) : tab[k] # NoKey}}

\* iteration over a set (for x in s, list(s)): the table's order
RECURSIVE IterFrom(_, _)
IterFrom(tab, j) ==
  IF j > Len(tab) THEN <<>>
  ELSE IF tab[j] # NoKey THEN <<tab[j][1]>> \o IterFrom(tab, j + 1)
  ELSE IterFrom(tab, j + 1)

SetIter(tab) == IterFrom(tab, 1)

\* x modulo 2^61 - 1 (_PyHASH_MODULUS) for x >= 0, on the three parts of x:
\* bits 0 to 29, bits 30 to 59, and the bits from 60 up.  2^61 is 1 modulo
\* 2^61 - 1, so the bits from 61 up are added to the 61 low ones.
RECURSIVE PyHASH_Reduce(_)
PyHASH_Reduce(x) ==
  LET lo == x % (2 ^ 30)
      mid == (x \div (2 ^ 30)) % (2 ^ 30)
      hi == (x \div (2 ^ 30)) \div (2 ^ 30)
  IN IF hi \div 2 > 0
     THEN PyHASH_Reduce(((hi % 2) * (2 ^ 30) * (2 ^ 30) + mid * (2 ^ 30) + lo) + hi \div 2)
     ELSE IF hi = 1 /\ mid = 2 ^ 30 - 1 /\ lo = 2 ^ 30 - 1 THEN 0
     ELSE x

\* hash(key) of an int: the int reduced modulo 2^61 - 1 with its sign kept,
\* but -2 for -1
hash(key) ==
  LET h == IF key < 0 THEN 0 - PyHASH_Reduce(0 - key) ELSE PyHASH_Reduce(key)
  IN IF h = -1 THEN -2 ELSE h

\* A size_t (64 bits) is kept as its digits in base 2^PERTURB_SHIFT, the
\* lowest first: SIZE_T_DIGITS digits, the highest of 64 - 12 * 5 = 4 bits.
SIZE_T_DIGITS == 13

RECURSIVE DigitsOf(_, _)
DigitsOf(x, n) ==
  IF n = 0 THEN <<>>
  ELSE <<x % (2 ^ PERTURB_SHIFT)>> \o DigitsOf(x \div (2 ^ PERTURB_SHIFT), n - 1)

\* (size_t)x: x itself, or 2^64 + x for a negative x (the complement of
\* -x - 1, digit by digit)
size_t(x) ==
  IF x >= 0 THEN DigitsOf(x, SIZE_T_DIGITS)
  ELSE LET d == DigitsOf((0 - x) - 1, SIZE_T_DIGITS)
       IN [k \in 1..SIZE_T_DIGITS |->
             IF k < SIZE_T_DIGITS THEN (2 ^ PERTURB_SHIFT - 1) - d[k]
             ELSE (2 ^ (64 - (SIZE_T_DIGITS - 1) * PERTURB_SHIFT) - 1) - d[k]]

\* perturb >>= PERTURB_SHIFT
Shr(perturb) == Tail(perturb) \o <<0>>

\* perturb & mask, size = mask + 1 a power of two
RECURSIVE LowBits(_, _)
LowBits(perturb, size) ==
  IF size <= 2 ^ PERTURB_SHIFT THEN perturb[1] % size
  ELSE perturb[1] + (2 ^ PERTURB_SHIFT) * LowBits(Tail(perturb), size \div (2 ^ PERTURB_SHIFT))

\* the slot (0-based) where entry is found or is to be stored: the probe
\* sequence of set_add_entry, starting at slot i
RECURSIVE ProbeSlot(_, _, _, _)
ProbeSlot(tab, entry, i, perturb) ==
  LET mask == Len(tab) - 1
      probes == IF i + LINEAR_PROBES <= mask THEN LINEAR_PROBES ELSE 0
      hit == {j \in i..(i + probes) : tab[j + 1] = NoKey \/ tab[j + 1] = entry}
      p == Shr(perturb)
  IN IF hit # {} THEN Min(hit)
     ELSE ProbeSlot(tab, entry, (i * 5 + 1 + LowBits(p, mask + 1)) % (mask + 1), p)

\* set_insert_clean: store a key known to be absent, no resize
set_insert_clean(tab, key) ==
  LET perturb == size_t(hash(key))
  IN [tab EXCEPT ![ProbeSlot(tab, NoKey, LowBits(perturb, Len(tab)), perturb) + 1] = <<key>>]

RECURSIVE InsertAllClean(_, _)
InsertAllClean(tab, keys) ==
  IF keys = <<>> THEN tab
  ELSE InsertAllClean(set_insert_clean(tab, Head(keys)), Tail(keys))

RECURSIVE TableSize(_, _)
TableSize(newsize, minused) ==
  IF newsize <= minused THEN TableSize(newsize * 2, minused) ELSE newsize

\* set_table_resize: a table of the next power of two above minused, the
\* keys re-inserted in the old table's order
set_table_resize(tab, minused) ==
  InsertAllClean(EmptyTable(TableSize(PySet_MINSIZE, minused)), SetIter(tab))

\* s.add(key): set_add_entry
set_add_entry(tab, key) ==
  LET mask == Len(tab) - 1
      perturb == size_t(hash(key))
      slot == ProbeSlot(tab, <<key>>, LowBits(perturb, Len(tab)), perturb)
      stored == [tab EXCEPT ![slot + 1] = <<key>>]
  IN IF tab[slot + 1] = <<key>> THEN tab
     ELSE IF Used(stored) * 5 < mask * 3 THEN stored
     ELSE set_table_resize(stored, IF Used(stored) > 50000 THEN Used(stored) * 2
                                   ELSE Used(stored) * 4)

RECURSIVE AddAll(_, _)
AddAll(tab, keys) ==
  IF keys = <<>> THEN tab
  ELSE AddAll(set_add_entry(tab, Head(keys)), Tail(keys))

\* set(other) and frozenset(other) for a set other: set_merge into a new
\* empty set
set_merge(other) ==
  LET so == IF Used(other) * 5 >= (PySet_MINSIZE - 1) * 3
            THEN set_table_resize(NewSet, Used(other) * 2)
            ELSE NewSet
  IN IF Used(other) = 0 THEN NewSet
     ELSE IF Len(so) = Len(other) THEN other
     ELSE InsertAllClean(so, SetIter(other))

\* so & other: set_intersection, which goes through the smaller of the two
\* sets (through other when they are of one size) and keeps what the larger holds
set_intersection(so, other) ==
  LET small == IF Used(other) > Used(so) THEN so ELSE other
      large == IF Used(other) > Used(so) THEN other ELSE so
  IN AddAll(NewSet, SelectSeq(SetIter(small), LAMBDA key : key \in Elems(large)))

----------------------------------------------------------------------------
(* Python's dict: <<key, value>> pairs in insertion order *)

DictKeys(d) == {d[i][1] : i \in 1..Len(d)}

\* d.keys(), list(d): the keys in insertion order
KeyList(d) == [i \in 1..Len(d) |-> d[i][1]]

\* the place of key k in d
DictIndex(d, k) == CHOOSE j \in 1..Len(d) : d[j][1] = k

DictGet(d, k) == d[DictIndex(d, k)][2]

\* d[k] = v: a new key goes last, an old key keeps its place
DictSet(d, k, v) ==
  IF k \in DictKeys(d)
  THEN [d EXCEPT ![DictIndex(d, k)] = <<k, v>>]
  ELSE Append(d, <<k, v>>)

----------------------------------------------------------------------------
(* The NFA: transitions maps <<state, symbol>> to the list of targets, the *)
(* symbol None standing for epsilon; accept maps accept states to labels,  *)
(* a dict with its keys in the order they were inserted in.                *)

None == "None"

\* a lookup by the symbol alone, whatever the state
TransGetAnyState(transitions, state, symbol) ==
  LET keys == {k \in DOMAIN transitions : k[2] = symbol}
  IN IF keys = {} THEN <<>> ELSE transitions[CHOOSE k \in keys : TRUE]

\* nfa.transitions.get((state, symbol), [])
TransGet(transitions, state, symbol) ==
  IF <<state, symbol>> \in DOMAIN transitions
  THEN transitions[<<state, symbol>>]
  ELSE <<>>

\* adding the epsilon targets to the closure without pushing them on the stack
RECURSIVE ClosureTargetsNoPush(_, _, _)
ClosureTargetsNoPush(closure, stack, next_states) ==
  IF next_states = <<>> THEN <<closure, stack>>
  ELSE ClosureTargetsNoPush(set_add_entry(closure, Head(next_states)), stack,
                            Tail(next_states))

\* pushing every epsilon target, in the closure already or not
RECURSIVE ClosureTargetsNoCheck(_, _, _)
ClosureTargetsNoCheck(closure, stack, next_states) ==
  IF next_states = <<>> THEN <<closure, stack>>
  ELSE ClosureTargetsNoCheck(set_add_entry(closure, Head(next_states)),
                             Append(stack, Head(next_states)), Tail(next_states))

\* one pass of the while loop of epsilon_closure per call: pop the last
\* state of the stack, add and push its epsilon targets not yet in closure
RECURSIVE ClosureTargets(_, _, _)
ClosureTargets(closure, stack, next_states) ==
  IF next_states = <<>> THEN <<closure, stack>>
  ELSE LET next_state == Head(next_states)
       IN IF next_state \notin Elems(closure)
          THEN ClosureTargets(set_add_entry(closure, next_state),
                              Append(stack, next_state), Tail(next_states))
          ELSE ClosureTargets(closure, stack, Tail(next_states))

RECURSIVE ClosureLoop(_, _, _)
ClosureLoop(N, closure, stack) ==
  IF stack = <<>> THEN closure
  ELSE LET state == stack[Len(stack)]
           rest == SubSeq(stack, 1, Len(stack) - 1)
           after == ClosureTargets(closure, rest, TransGet(N.transitions, state, None))
       IN ClosureLoop(N, after[1], after[2])

\* a closure that starts from the empty set instead of a copy of states
closure_unseeded(N, states) == ClosureLoop(N, NewSet, SetIter(states))

\* epsilon_closure(nfa, states), states a set
epsilon_closure(N, states) == ClosureLoop(N, set_merge(states), SetIter(states))

\* move_nfa following only the first target of each transition list
move_first(N, states, symbol) ==
  LET firsts == SelectSeq(SetIter(states),
                          LAMBDA s : TransGet(N.transitions, s, symbol) # <<>>)
  IN AddAll(NewSet, [i \in 1..Len(firsts) |-> TransGet(N.transitions, firsts[i], symbol)[1]])

RECURSIVE MoveLoop(_, _, _, _)
MoveLoop(N, result, todo, symbol) ==
  IF todo = <<>> THEN result
  ELSE MoveLoop(N, AddAll(result, TransGet(N.transitions, Head(todo), symbol)),
                Tail(todo), symbol)

\* move_nfa(nfa, states, symbol)
move_nfa(N, states, symbol) == MoveLoop(N, NewSet, SetIter(states), symbol)

\* ", ".join(labels)
RECURSIVE Join(_)
Join(labels) ==
  IF labels = <<>> THEN <<>>
  ELSE IF Len(labels) = 1 THEN labels[1]
  ELSE labels[1] \o <<",", " ">> \o Join(Tail(labels))

\* the labels of every accept state of the NFA, in the closure or not
AcceptLabelsAll(N, closure) ==
  LET all == Ascending(DictKeys(N.accept)) IN [i \in 1..Len(all) |-> DictGet(N.accept, all[i])]

\* the labels taken by going through nfa.accept instead of the closure:
\* [nfa.accept[s] for s in nfa.accept if s in closure]
AcceptLabelsByDict(N, closure) ==
  LET hits == SelectSeq(KeyList(N.accept), LAMBDA s : s \in Elems(closure))
  IN [i \in 1..Len(hits) |-> DictGet(N.accept, hits[i])]

\* [nfa.accept[s] for s in closure if s in nfa.accept]
AcceptLabels(N, closure) ==
  LET hits == SelectSeq(SetIter(closure), LAMBDA s : s \in DictKeys(N.accept))
  IN [i \in 1..Len(hits) |-> DictGet(N.accept, hits[i])]

\* nfa_accept_set = set(nfa.accept.keys()): the keys added one by one
nfa_accept_set(N) == AddAll(NewSet, KeyList(N.accept))

\* a start set that takes state 0 for the start state
StartSetZero(N) == set_add_entry(NewSet, 0)

\* the set literal {nfa.start}
StartSet(N) == set_add_entry(NewSet, N.start)

----------------------------------------------------------------------------
(* The inputs: NFAs given as rows <<from, symbol, to>>, turned into the    *)
(* transitions dict the way read_nfa_transitions_csv does                  *)
(* (transitions.setdefault(key, []).append(to)).                           *)

NfaStates == {0, 1, 8}
Symbols == {"a", "b"}
MaxRows == 2

Label == [s \in NfaStates |-> IF s = 0 THEN <<"L", "0">> ELSE IF s = 1 THEN <<"L", "1">> ELSE <<"L", "8">>]

\* the dict {s: label[s] for s in states}, states a list
LabelDict(states, label) == [i \in 1..Len(states) |-> <<states[i], label[states[i]]>>]

AllRows == NfaStates \X (Symbols \cup {None}) \X NfaStates

RowTargets(rows, key) ==
  LET hits == SelectSeq(rows, LAMBDA r : <<r[1], r[2]>> = key)
  IN [i \in 1..Len(hits) |-> hits[i][3]]

BuildTransitions(rows) ==
  [key \in {<<rows[i][1], rows[i][2]>> : i \in 1..Len(rows)} |-> RowTargets(rows, key)]

\* the alphabet in the order the for loop iterates it
Alphabets == {s \in SeqsUpTo(Symbols, Cardinality(Symbols)) :
                \A i, j \in 1..Len(s) : i # j => s[i] # s[j]}

Nfas == {[transitions |-> BuildTransitions(rows), start |-> st,
          accept |-> LabelDict(Ascending(acc), Label)] :
           rows \in SeqsUpTo(AllRows, MaxRows), st \in NfaStates, acc \in SUBSET NfaStates}

\* the example NFA of the module's __main__ block
sample_transitions ==
  [key \in {<<0, None>>, <<1, "a">>, <<2, None>>, <<3, "b">>} |->
     IF key = <<0, None>> THEN <<1>>
     ELSE IF key = <<1, "a">> THEN <<2>>
     ELSE IF key = <<2, None>> THEN <<3>>
     ELSE <<4>>]
sample_accept == << <<4, <<"a", "c", "c", "e", "p", "t">>>> >>
SampleNfa == [transitions |-> sample_transitions, start |-> 0, accept |-> sample_accept]

\* strings ending in a, b or 8-labelled states: nondeterminism on a, an
\* epsilon cycle, and state ids that meet in one slot of the hash table
BranchingNfa ==
  [transitions |->
     [key \in {<<0, "a">>, <<0, "b">>, <<8, "a">>, <<8, "b">>, <<16, None>>, <<1, None>>} |->
        IF key = <<0, "a">> THEN <<0, 8>>
        ELSE IF key = <<0, "b">> THEN <<0>>
        ELSE IF key = <<8, "a">> THEN <<16, 1>>
        ELSE IF key = <<8, "b">> THEN <<1>>
        ELSE IF key = <<16, None>> THEN <<1>>
        ELSE <<16>>],
   start |-> 0,
   accept |-> << <<16, <<"L", "1", "6">>>>, <<1, <<"L", "1">>>> >>]

\* one state set reached with its members stored in two different orders
ReorderNfa ==
  [transitions |->
     [key \in {<<0, None>>, <<0, "a">>, <<8, "b">>} |->
        IF key = <<0, None>> THEN <<8>>
        ELSE IF key = <<0, "a">> THEN <<8, 0>>
        ELSE <<1>>],
   start |-> 0,
   accept |-> LabelDict(<<8, 0>>, Label)]

\* two branches out of the start state, each with its own loop
ForkNfa ==
  [transitions |->
     [key \in {<<0, "a">>, <<0, "b">>, <<1, "b">>, <<8, "a">>} |->
        IF key = <<0, "a">> THEN <<1>>
        ELSE IF key = <<0, "b">> THEN <<8>>
        ELSE IF key = <<1, "b">> THEN <<1>>
        ELSE <<8>>],
   start |-> 0,
   accept |-> LabelDict(<<1, 8>>, Label)]

\* state ids below 0, among them -1 and -2, which have the same hash
NegativeNfa ==
  [transitions |->
     [key \in {<<0, "a">>, <<-1, None>>, <<-2, "b">>} |->
        IF key = <<0, "a">> THEN <<-1>>
        ELSE IF key = <<-1, None>> THEN <<-2>>
        ELSE <<-1, 0>>],
   start |-> 0,
   accept |-> << <<-1, <<"N", "1">>>>, <<-2, <<"N", "2">>>> >>]

SampleNfas == {SampleNfa, BranchingNfa, ReorderNfa, ForkNfa, NegativeNfa}

NoDfa == [transitions |-> <<>>, start |-> -1, accept |-> <<>>]
NoRun == <<>>

Idle ==
  /\ dfa_transitions = <<>>
  /\ dfa_accept = <<>>
  /\ state_mapping = <<>>
  /\ dfa_states = <<>>
  /\ queue = <<>>
  /\ current_index = -1
  /\ sym_pos = 0
  /\ dfa = NoDfa
  /\ first = NoRun
  /\ cl_states = NewSet
  /\ cl_result = NewSet
  /\ cl_again = NewSet
  /\ csvfile = <<>>
  /\ jsonfile = <<>>
  /\ csv_table = <<>>
  /\ cl_stack = <<>>
  /\ cl_pushed = <<>>
  /\ rows_in = <<>>

Init ==
  /\ nfa \in Nfas \cup SampleNfas
  /\ alphabet \in Alphabets
  /\ pc = "start"
  /\ Idle

----------------------------------------------------------------------------
(* convert_nfa_to_dfa *)

\* state_mapping[closure] = index; a frozenset is a key by its elements
MapSet(mapping, closure, index) ==
  [k \in DOMAIN mapping \cup {Elems(closure)} |->
     IF k = Elems(closure) THEN index ELSE mapping[k]]

\* labelling only closures made of accept states alone
WithAcceptAll(N, accept, closure, index) ==
  IF Elems(closure) \subseteq DictKeys(N.accept)
  THEN DictSet(accept, index, Join(AcceptLabels(N, closure)))
  ELSE accept

\* if closure & nfa_accept_set: dfa_accept[index] = ", ".join(labels)
WithAccept(N, accept, closure, index) ==
  IF Used(set_intersection(closure, nfa_accept_set(N))) # 0
  THEN DictSet(accept, index, Join(AcceptLabels(N, closure)))
  ELSE accept

\* a lookup that tells state sets apart by the order their members are stored in
SeenSameTable(mapping, closure) == \E i \in 1..Len(dfa_states) : dfa_states[i] = closure

\* a lookup that never finds the state set
NeverSeen(mapping, closure) == FALSE

\* next_closure in state_mapping
SeenBefore(mapping, closure) == Elems(closure) \in DOMAIN mapping

\* dfa_states: List[frozenset] = []
NewList == <<>>

\* the start state: its closure, registered as DFA state 0 and enqueued
Start ==
  /\ pc = "start"
  /\ LET start_closure == set_merge(epsilon_closure(nfa, StartSet(nfa)))
     IN /\ state_mapping' = MapSet(<<>>, start_closure, 0)
        /\ dfa_states' = Append(NewList, start_closure)
        /\ dfa_accept' = WithAccept(nfa, <<>>, start_closure, 0)
  /\ dfa_transitions' = <<>>
  /\ queue' = <<0>>
  /\ pc' = "while"
  /\ UNCHANGED <<inputVars, otherVars, current_index, sym_pos, dfa>>

\* queue[0]: the oldest index, left in the queue
peekleft(q) == <<Head(q), q>>

\* queue.pop(): the newest index instead of the oldest
pop(q) == <<q[Len(q)], SubSeq(q, 1, Len(q) - 1)>>

\* queue.popleft(): the index taken and the queue left
popleft(q) == <<Head(q), Tail(q)>>

\* while queue: current_index = queue.popleft()
Dequeue ==
  /\ pc = "while"
  /\ queue # <<>>
  /\ current_index' = popleft(queue)[1]
  /\ queue' = popleft(queue)[2]
  /\ sym_pos' = 1
  /\ pc' = "for"
  /\ UNCHANGED <<inputVars, otherVars, dfa_transitions, dfa_accept, state_mapping, dfa_states, dfa>>

\* the state set of the start state, whatever index was dequeued
start_state_set == dfa_states[1]

\* current_state_set = dfa_states[current_index]
current_state_set == dfa_states[current_index + 1]

\* the first symbol of the alphabet at every pass of the for loop
symbol_first == alphabet[1]

\* for symbol in alphabet
symbol == alphabet[sym_pos]

\* move_set = move_nfa(nfa, set(current_state_set), symbol)
move_set == move_nfa(nfa, set_merge(current_state_set), symbol)

\* the moved set itself, without its epsilon closure
move_unclosed == set_merge(move_set)

\* next_closure = frozenset(epsilon_closure(nfa, move_set))
next_closure == set_merge(epsilon_closure(nfa, move_set))

\* if not move_set: continue
SkipSymbol ==
  /\ pc = "for"
  /\ sym_pos <= Len(alphabet)
  /\ Used(move_set) = 0
  /\ sym_pos' = sym_pos + 1
  /\ UNCHANGED <<inputVars, otherVars, pc, dfa_transitions, dfa_accept, state_mapping,
                 dfa_states, queue, current_index, dfa>>

\* the closure was seen before: its index is reused
ReuseState ==
  /\ pc = "for"
  /\ sym_pos <= Len(alphabet)
  /\ Used(move_set) # 0
  /\ SeenBefore(state_mapping, next_closure)
  /\ dfa_transitions' = DictSet(dfa_transitions, <<current_index, symbol>>,
                                state_mapping[Elems(next_closure)])
  /\ sym_pos' = sym_pos + 1
  /\ UNCHANGED <<inputVars, otherVars, pc, dfa_accept, state_mapping, dfa_states, queue,
                 current_index, dfa>>

\* a new closure: the next index, registered, enqueued and labelled
DiscoverState ==
  /\ pc = "for"
  /\ sym_pos <= Len(alphabet)
  /\ Used(move_set) # 0
  /\ ~SeenBefore(state_mapping, next_closure)
  /\ LET next_index == Len(dfa_states)
     IN /\ state_mapping' = MapSet(state_mapping, next_closure, next_index)
        /\ dfa_states' = Append(dfa_states, next_closure)
        /\ queue' = Append(queue, next_index)
        /\ dfa_accept' = WithAccept(nfa, dfa_accept, next_closure, next_index)
        /\ dfa_transitions' = DictSet(dfa_transitions, <<current_index, symbol>>, next_index)
  /\ sym_pos' = sym_pos + 1
  /\ UNCHANGED <<inputVars, otherVars, pc, current_index, dfa>>

\* the for loop over the alphabet is exhausted
EndFor ==
  /\ pc = "for"
  /\ sym_pos > Len(alphabet)
  /\ pc' = "while"
  /\ UNCHANGED <<inputVars, otherVars, dfa_transitions, dfa_accept, state_mapping, dfa_states,
                 queue, current_index, sym_pos, dfa>>

\* a return that takes the NFA's start state for the DFA's
ReturnNfaStart ==
  /\ pc = "while"
  /\ queue = <<>>
  /\ dfa' = [transitions |-> dfa_transitions, start |-> nfa.start, accept |-> dfa_accept]
  /\ pc' = "done"
  /\ UNCHANGED <<inputVars, otherVars, dfa_transitions, dfa_accept, state_mapping, dfa_states,
                 queue, current_index, sym_pos>>

\* the queue is empty: return DFA(transitions, start=0, accept)
Return ==
  /\ pc = "while"
  /\ queue = <<>>
  /\ dfa' = [transitions |-> dfa_transitions, start |-> 0, accept |-> dfa_accept]
  /\ pc' = "done"
  /\ UNCHANGED <<inputVars, otherVars, dfa_transitions, dfa_accept, state_mapping, dfa_states,
                 queue, current_index, sym_pos>>

Next ==
  \/ Start
  \/ Dequeue
  \/ SkipSymbol
  \/ ReuseState
  \/ DiscoverState
  \/ EndFor
  \/ Return

Spec == Init /\ [][Next]_vars

\* The call runs on until it returns: weak fairness of Next, with its
\* enabling condition written out.  A step of Next can be taken in every
\* state but the last (Start at the call; Dequeue or Return at the while;
\* SkipSymbol, ReuseState, DiscoverState or EndFor in the for loop).
RunsOn == <>[](pc # "done") => []<><<Next>>_vars

SpecRunsOn == Init /\ [][Next]_vars /\ RunsOn

\* the dicts that hold the items of d, inserted in any order: the dicts
\* equal to d
Reordered(d) ==
  {[i \in 1..Len(d) |-> d[p[i]]] :
     p \in {q \in [1..Len(d) -> 1..Len(d)] : \A i, j \in 1..Len(d) : q[i] = q[j] => i = j}}

\* the same call once more, on the same NFA and the same alphabet: the NFA
\* object of the first call or one equal to it, with the items of its accept
\* dict inserted in any order (nfa.transitions is only looked up by key,
\* alphabet is iterated in the same order)
CallAgain ==
  /\ pc = "done"
  /\ first = NoRun
  /\ first' = [dfa |-> dfa, states |-> dfa_states, nfa |-> nfa]
  /\ \E accept \in Reordered(nfa.accept) : nfa' = [nfa EXCEPT !.accept = accept]
  /\ dfa' = NoDfa
  /\ pc' = "start"
  /\ UNCHANGED <<alphabet, dfa_transitions, dfa_accept, state_mapping, dfa_states,
                 queue, current_index, sym_pos, cl_states, cl_result, cl_again, fileVars, stepVars>>

NextTwice == Next \/ CallAgain

SpecTwice == Init /\ [][NextTwice]_vars

\* the states of an NFA that its start state reaches, by epsilon or symbol
RECURSIVE ReachFrom(_, _)
ReachFrom(N, S) ==
  LET T == S \cup UNION {Range(N.transitions[k]) : k \in {j \in DOMAIN N.transitions : j[1] \in S}}
  IN IF T = S THEN S ELSE ReachFrom(N, T)

Reachable(N) == ReachFrom(N, {N.start})

\* the NFA without the transitions and accept labels of its unreachable states
Pruned(N) ==
  [transitions |-> [k \in {j \in DOMAIN N.transitions : j[1] \in Reachable(N)} |-> N.transitions[k]],
   start |-> N.start,
   accept |-> SelectSeq(N.accept, LAMBDA item : item[1] \in Reachable(N))]

\* the same call once more, on the NFA without its unreachable states
CallPruned ==
  /\ pc = "done"
  /\ first = NoRun
  /\ first' = [dfa |-> dfa, states |-> dfa_states, nfa |-> nfa]
  /\ nfa' = Pruned(nfa)
  /\ dfa' = NoDfa
  /\ pc' = "start"
  /\ UNCHANGED <<alphabet, dfa_transitions, dfa_accept, state_mapping, dfa_states,
                 queue, current_index, sym_pos, cl_states, cl_result, cl_again, fileVars,
                 stepVars>>

NextPruned == Next \/ CallPruned

SpecPruned == Init /\ [][NextPruned]_vars

----------------------------------------------------------------------------
(* epsilon_closure on its own: an NFA with epsilon transitions only and a  *)
(* set of states built by adding its members one by one                    *)

MaxEpsRows == 3
MaxArg == 2

EpsRows == NfaStates \X {None} \X NfaStates

\* an epsilon cycle through six states, long enough for the table to grow
EpsCycleNfa ==
  [transitions |->
     [key \in {<<0, None>>, <<1, None>>, <<8, None>>, <<16, None>>, <<2, None>>, <<3, None>>} |->
        IF key = <<0, None>> THEN <<1>>
        ELSE IF key = <<1, None>> THEN <<8, 1>>
        ELSE IF key = <<8, None>> THEN <<16>>
        ELSE IF key = <<16, None>> THEN <<2>>
        ELSE IF key = <<2, None>> THEN <<3>>
        ELSE <<0>>],
   start |-> 0,
   accept |-> <<>>]

\* an epsilon cycle through state ids below 0
EpsNegativeNfa ==
  [transitions |->
     [key \in {<<0, None>>, <<-1, None>>} |->
        IF key = <<0, None>> THEN <<-1>> ELSE <<-2, 0>>],
   start |-> 0, accept |-> <<>>]

ClosureNfas ==
  {[transitions |-> BuildTransitions(rows), start |-> 0, accept |-> <<>>] :
     rows \in SeqsUpTo(EpsRows, MaxEpsRows)} \cup {EpsCycleNfa, EpsNegativeNfa}

ArgSets == {AddAll(NewSet, keys) : keys \in SeqsUpTo(NfaStates, MaxArg)}

InitClosure ==
  /\ nfa \in ClosureNfas
  /\ alphabet = <<>>
  /\ pc = "closure"
  /\ dfa_transitions = <<>>
  /\ dfa_accept = <<>>
  /\ state_mapping = <<>>
  /\ dfa_states = <<>>
  /\ queue = <<>>
  /\ current_index = -1
  /\ sym_pos = 0
  /\ dfa = NoDfa
  /\ first = NoRun
  /\ cl_states \in ArgSets
  /\ cl_result = NewSet
  /\ cl_again = NewSet
  /\ csvfile = <<>>
  /\ jsonfile = <<>>
  /\ csv_table = <<>>
  /\ cl_stack = <<>>
  /\ cl_pushed = <<>>
  /\ rows_in = <<>>

CallClosure ==
  /\ pc = "closure"
  /\ cl_result' = epsilon_closure(nfa, cl_states)
  /\ pc' = "closed"
  /\ UNCHANGED <<inputVars, dfa_transitions, dfa_accept, state_mapping, dfa_states,
                 queue, current_index, sym_pos, dfa, first, cl_states, cl_again, fileVars, stepVars>>

CallClosureOnResult ==
  /\ pc = "closed"
  /\ cl_again' = epsilon_closure(nfa, cl_result)
  /\ pc' = "closed twice"
  /\ UNCHANGED <<inputVars, dfa_transitions, dfa_accept, state_mapping, dfa_states,
                 queue, current_index, sym_pos, dfa, first, cl_states, cl_result, fileVars, stepVars>>

NextClosure == CallClosure \/ CallClosureOnResult

SpecClosure == InitClosure /\ [][NextClosure]_vars

----------------------------------------------------------------------------
(* epsilon_closure step by step: one action per pass of its while loop,   *)
(* with the states pushed inside the loop recorded in cl_pushed           *)

InitClosureSteps ==
  /\ nfa \in ClosureNfas
  /\ alphabet = <<>>
  /\ pc = "closure call"
  /\ cl_states \in ArgSets
  /\ dfa_transitions = <<>>
  /\ dfa_accept = <<>>
  /\ state_mapping = <<>>
  /\ dfa_states = <<>>
  /\ queue = <<>>
  /\ current_index = -1
  /\ sym_pos = 0
  /\ dfa = NoDfa
  /\ first = NoRun
  /\ cl_result = NewSet
  /\ cl_again = NewSet
  /\ csvfile = <<>>
  /\ jsonfile = <<>>
  /\ csv_table = <<>>
  /\ cl_stack = <<>>
  /\ cl_pushed = <<>>
  /\ rows_in = <<>>

\* closure = set(states); stack = list(states)
ClosureEnter ==
  /\ pc = "closure call"
  /\ cl_result' = set_merge(cl_states)
  /\ cl_stack' = SetIter(cl_states)
  /\ cl_pushed' = <<>>
  /\ pc' = "closure loop"
  /\ UNCHANGED <<inputVars, dfa_transitions, dfa_accept, state_mapping, dfa_states,
                 queue, current_index, sym_pos, dfa, first, cl_states, cl_again,
                 fileVars, rows_in>>

\* while stack: state = stack.pop(); for next_state in next_states: ...
ClosurePop ==
  /\ pc = "closure loop"
  /\ cl_stack # <<>>
  /\ LET state == cl_stack[Len(cl_stack)]
         rest == SubSeq(cl_stack, 1, Len(cl_stack) - 1)
         after == ClosureTargets(cl_result, rest, TransGet(nfa.transitions, state, None))
     IN /\ cl_result' = after[1]
        /\ cl_stack' = after[2]
        /\ cl_pushed' = cl_pushed \o SubSeq(after[2], Len(rest) + 1, Len(after[2]))
  /\ UNCHANGED <<inputVars, pc, dfa_transitions, dfa_accept, state_mapping, dfa_states,
                 queue, current_index, sym_pos, dfa, first, cl_states, cl_again,
                 fileVars, rows_in>>

\* the stack is empty: return closure
ClosureReturn ==
  /\ pc = "closure loop"
  /\ cl_stack = <<>>
  /\ pc' = "closure returned"
  /\ UNCHANGED <<inputVars, dfa_transitions, dfa_accept, state_mapping, dfa_states,
                 queue, current_index, sym_pos, dfa, first, cl_states, cl_result, cl_again,
                 fileVars, stepVars>>

NextClosureSteps == ClosureEnter \/ ClosurePop \/ ClosureReturn

\* The call runs on until it returns: weak fairness of NextClosureSteps, with
\* its enabling condition written out.  A step of NextClosureSteps can be
\* taken in every state but the last (ClosureEnter at the call; ClosurePop
\* or ClosureReturn in the loop, as the stack is empty or not).
ClosureStepsFair ==
  <>[](pc # "closure returned") => []<><<NextClosureSteps>>_vars

SpecClosureSteps == InitClosureSteps /\ [][NextClosureSteps]_vars /\ ClosureStepsFair

----------------------------------------------------------------------------
(* Text: a str is a sequence of one-character strings.  str() and int()    *)
(* between ints and their decimal text.                                    *)

\* The characters of a str, by code point: Latin1[n] is the character
\* U+0001..U+00FF with code point n.  The grave accent (code point 96) and
\* the characters from U+0080 on are written as the strings of their
\* escapes, "\\x60", "\\x80", ...; a text holding the four characters of
\* such an escape holds them as four characters of the sequence.
\* Characters above U+00FF are outside the model.
Latin1 == <<
  "", "", "", "", "", "", "", "",
  "\t", "\n", "", "\f", "\r", "", "", "",
  "", "", "", "", "", "", "", "",
  "", "", "", "", "", "", "", " ",
  "!", "\"", "#", "$", "%", "&", "'", "(",
  ")", "*", "+", ",", "-", ".", "/", "0",
  "1", "2", "3", "4", "5", "6", "7", "8",
  "9", ":", ";", "<", "=", ">", "?", "@",
  "A", "B", "C", "D", "E", "F", "G", "H",
  "I", "J", "K", "L", "M", "N", "O", "P",
  "Q", "R", "S", "T", "U", "V", "W", "X",
  "Y", "Z", "[", "\\", "]", "^", "_", "\\x60",
  "a", "b", "c", "d", "e", "f", "g", "h",
  "i", "j", "k", "l", "m", "n", "o", "p",
  "q", "r", "s", "t", "u", "v", "w", "x",
  "y", "z", "{", "|", "}", "~", "", "\\x80",
  "\\x81", "\\x82", "\\x83", "\\x84", "\\x85", "\\x86", "\\x87", "\\x88",
  "\\x89", "\\x8a", "\\x8b", "\\x8c", "\\x8d", "\\x8e", "\\x8f", "\\x90",
  "\\x91", "\\x92", "\\x93", "\\x94", "\\x95", "\\x96", "\\x97", "\\x98",
  "\\x99", "\\x9a", "\\x9b", "\\x9c", "\\x9d", "\\x9e", "\\x9f", "\\xa0",
  "\\xa1", "\\xa2", "\\xa3", "\\xa4", "\\xa5", "\\xa6", "\\xa7", "\\xa8",
  "\\xa9", "\\xaa", "\\xab", "\\xac", "\\xad", "\\xae", "\\xaf", "\\xb0",
  "\\xb1", "\\xb2", "\\xb3", "\\xb4", "\\xb5", "\\xb6", "\\xb7", "\\xb8",
  "\\xb9", "\\xba", "\\xbb", "\\xbc", "\\xbd", "\\xbe", "\\xbf", "\\xc0",
  "\\xc1", "\\xc2", "\\xc3", "\\xc4", "\\xc5", "\\xc6", "\\xc7", "\\xc8",
  "\\xc9", "\\xca", "\\xcb", "\\xcc", "\\xcd", "\\xce", "\\xcf", "\\xd0",
  "\\xd1", "\\xd2", "\\xd3", "\\xd4", "\\xd5", "\\xd6", "\\xd7", "\\xd8",
  "\\xd9", "\\xda", "\\xdb", "\\xdc", "\\xdd", "\\xde", "\\xdf", "\\xe0",
  "\\xe1", "\\xe2", "\\xe3", "\\xe4", "\\xe5", "\\xe6", "\\xe7", "\\xe8",
  "\\xe9", "\\xea", "\\xeb", "\\xec", "\\xed", "\\xee", "\\xef", "\\xf0",
  "\\xf1", "\\xf2", "\\xf3", "\\xf4", "\\xf5", "\\xf6", "\\xf7", "\\xf8",
  "\\xf9", "\\xfa", "\\xfb", "\\xfc", "\\xfd", "\\xfe", "\\xff" >>

chr(n) == Latin1[n]

ord(c) == CHOOSE n \in 1..Len(Latin1) : Latin1[n] = c

Digit == <<"0", "1", "2", "3", "4", "5", "6", "7", "8", "9">>

\* the characters str.isspace() holds of, which str.strip() strips:
\* \t \n \x0b \f \r, \x1c..\x1f, the space, \x85 and \xa0 (and, above
\* U+00FF, the spaces of Unicode)
Whitespace == {chr(n) : n \in (9..13) \cup (28..32) \cup {133, 160}}

\* the characters int() strips: the same but for the separators \x1c..\x1f,
\* which int() keeps (the spaces above U+007F are turned into " ", the text
\* is then stripped of the spaces of C's isspace)
IntSpace == {chr(n) : n \in (9..13) \cup {32, 133, 160}}

\* str(n)
RECURSIVE Str(_)
Str(n) ==
  IF n < 0 THEN <<"-">> \o Str(0 - n)
  ELSE IF n < 10 THEN <<Digit[n + 1]>>
  ELSE Str(n \div 10) \o <<Digit[(n % 10) + 1]>>

\* str without the characters of space at its left end, at its right end
RECURSIVE LStrip(_, _)
LStrip(str, space) ==
  IF str # <<>> /\ Head(str) \in space THEN LStrip(Tail(str), space) ELSE str

RECURSIVE RStrip(_, _)
RStrip(str, space) ==
  IF str # <<>> /\ str[Len(str)] \in space
  THEN RStrip(SubSeq(str, 1, Len(str) - 1), space)
  ELSE str

\* s.strip()
Strip(str) == RStrip(LStrip(str, Whitespace), Whitespace)

\* the text int() parses
IntStrip(str) == RStrip(LStrip(str, IntSpace), IntSpace)

DigitValue(c) == CHOOSE d \in 0..9 : Digit[d + 1] = c

\* the digits of an int literal: digits with single underscores between them
\* (up to U+00FF the decimal digits are "0".."9"; the decimal digits of other
\* scripts, which int() takes too, lie above)
IsDigits(str) ==
  /\ str # <<>>
  /\ \A i \in 1..Len(str) : str[i] \in Range(Digit) \cup {"_"}
  /\ str[1] # "_"
  /\ str[Len(str)] # "_"
  /\ \A i \in 1..(Len(str) - 1) : ~(str[i] = "_" /\ str[i + 1] = "_")

\* the value of the digits lo..hi of str after the digits that made acc, the
\* left half of them first
RECURSIVE DigitsValue(_, _, _, _)
DigitsValue(str, lo, hi, acc) ==
  IF lo > hi THEN acc
  ELSE IF lo = hi
  THEN (IF str[lo] = "_" THEN acc ELSE acc * 10 + DigitValue(str[lo]))
  ELSE LET mid == (lo + hi) \div 2
           left == DigitsValue(str, lo, mid, acc)
       IN IF left = 0 THEN DigitsValue(str, mid + 1, hi, 0)
          ELSE DigitsValue(str, mid + 1, hi, left)

Unsigned(str) == IF str # <<>> /\ Head(str) \in {"+", "-"} THEN Tail(str) ELSE str

\* sys.get_int_max_str_digits(): the most digits int() takes from a text
default_max_str_digits == 4300

\* int(str) raises ValueError: the text is no int literal, or it has more
\* digits than int() takes (the sign, the underscores and the space around
\* it do not count, leading zeros do)
IntFails(str) ==
  LET body == Unsigned(IntStrip(str))
  IN \/ ~IsDigits(body)
     \/ Cardinality({i \in 1..Len(body) : body[i] # "_"}) > default_max_str_digits

\* int(str)
Int_(str) ==
  LET body == IntStrip(str)
      value == DigitsValue(Unsigned(body), 1, Len(Unsigned(body)), 0)
  IN IF Head(body) = "-" THEN 0 - value ELSE value

----------------------------------------------------------------------------
(* The csv module: csv.writer and csv.reader with the default dialect      *)
(* (delimiter ",", quotechar "\"", doublequote, lineterminator "\r\n",     *)
(* QUOTE_MINIMAL), on a file opened with newline="".                       *)

Quote == "\""
EOL == "EOL"

\* QUOTE_MINIMAL: the field holds a delimiter, a quote or a line break, or it
\* is the empty only field of its row
NeedsQuote(field, nfields) ==
  \/ \E i \in 1..Len(field) : field[i] \in {",", Quote, "\r", "\n"}
  \/ (nfields = 1 /\ field = <<>>)

RECURSIVE Doubled(_)
Doubled(field) ==
  IF field = <<>> THEN <<>>
  ELSE IF Head(field) = Quote THEN <<Quote, Quote>> \o Doubled(Tail(field))
  ELSE <<Head(field)>> \o Doubled(Tail(field))

WriteField(field, nfields) ==
  IF NeedsQuote(field, nfields) THEN <<Quote>> \o Doubled(field) \o <<Quote>> ELSE field

RECURSIVE JoinFields(_, _)
JoinFields(fields, nfields) ==
  IF fields = <<>> THEN <<>>
  ELSE IF Len(fields) = 1 THEN WriteField(fields[1], nfields)
  ELSE WriteField(fields[1], nfields) \o <<",">> \o JoinFields(Tail(fields), nfields)

\* writer.writerow(fields)
writerow(fields) == JoinFields(fields, Len(fields)) \o <<"\r", "\n">>

SaveField(r) == [r EXCEPT !.fields = Append(r.fields, r.field), !.field = <<>>]

AfterBreak(c) == IF c = EOL THEN "START_RECORD" ELSE "EAT_CRNL"

\* csv.field_size_limit(): the most characters the reader takes in one field
field_limit == 131072

\* parse_add_char: c joins the field and the machine goes to state, unless
\* the field is at the limit: csv.Error
AddChar(r, c, state) ==
  IF Len(r.field) >= field_limit THEN [r EXCEPT !.state = "csv.Error"]
  ELSE [r EXCEPT !.field = Append(r.field, c), !.state = state]

\* one character, or the end of a line, through the reader's state machine
ProcessChar(r, c) ==
  LET st == IF r.state = "START_RECORD" /\ c \notin {EOL, "\n", "\r"}
            THEN "START_FIELD" ELSE r.state
  IN
  IF st = "START_RECORD"
  THEN IF c = EOL THEN r ELSE [r EXCEPT !.state = "EAT_CRNL"]
  ELSE IF st = "START_FIELD"
  THEN IF c \in {EOL, "\n", "\r"} THEN [SaveField(r) EXCEPT !.state = AfterBreak(c)]
       ELSE IF c = Quote THEN [r EXCEPT !.state = "IN_QUOTED_FIELD"]
       ELSE IF c = "," THEN [SaveField(r) EXCEPT !.state = "START_FIELD"]
       ELSE AddChar(r, c, "IN_FIELD")
  ELSE IF st = "IN_FIELD"
  THEN IF c \in {EOL, "\n", "\r"} THEN [SaveField(r) EXCEPT !.state = AfterBreak(c)]
       ELSE IF c = "," THEN [SaveField(r) EXCEPT !.state = "START_FIELD"]
       ELSE AddChar(r, c, "IN_FIELD")
  ELSE IF st = "IN_QUOTED_FIELD"
  THEN IF c = EOL THEN r
       ELSE IF c = Quote THEN [r EXCEPT !.state = "QUOTE_IN_QUOTED_FIELD"]
       ELSE AddChar(r, c, "IN_QUOTED_FIELD")
  ELSE IF st = "QUOTE_IN_QUOTED_FIELD"
  THEN IF c = Quote THEN AddChar(r, c, "IN_QUOTED_FIELD")
       ELSE IF c = "," THEN [SaveField(r) EXCEPT !.state = "START_FIELD"]
       ELSE IF c \in {EOL, "\n", "\r"} THEN [SaveField(r) EXCEPT !.state = AfterBreak(c)]
       ELSE AddChar(r, c, "IN_FIELD")
  ELSE IF st = "EAT_CRNL"
  THEN IF c = EOL THEN [r EXCEPT !.state = "START_RECORD"]
       ELSE IF c \in {"\n", "\r"} THEN r
       ELSE [r EXCEPT !.state = "csv.Error"]
  ELSE r

\* the end of a line of the file, unless a csv.Error came before it: a
\* record is complete when the machine is back at START_RECORD
EndLine(r) ==
  LET e == ProcessChar(r, EOL)
  IN IF r.state = "csv.Error" THEN r
     ELSE IF e.state = "START_RECORD"
     THEN [e EXCEPT !.rows = Append(e.rows, e.fields), !.fields = <<>>]
     ELSE e

\* the file's lines end after "\n", "\r\n" or a lone "\r", and at its end
LineEndsAt(text, i) ==
  \/ text[i] = "\n"
  \/ (text[i] = "\r" /\ ~(i < Len(text) /\ text[i + 1] = "\n"))
  \/ i = Len(text)

\* iterating the file: its lines, each with its line break
LineEnds(text) == {i \in 1..Len(text) : LineEndsAt(text, i)}

LineStart(text, end) ==
  IF \E e \in LineEnds(text) : e < end
  THEN (CHOOSE e \in LineEnds(text) : e < end /\ \A f \in LineEnds(text) : f < end => f <= e) + 1
  ELSE 1

FileLines(text) ==
  LET ends == Ascending(LineEnds(text))
  IN [k \in 1..Len(ends) |-> SubSeq(text, LineStart(text, ends[k]), ends[k])]

\* the characters lo..hi of a line, one after the other, up to a csv.Error
RECURSIVE LineLoop(_, _, _, _)
LineLoop(line, lo, hi, r) ==
  IF lo > hi \/ r.state = "csv.Error" THEN r
  ELSE IF lo = hi THEN ProcessChar(r, line[lo])
  ELSE LET mid == (lo + hi) \div 2
           left == LineLoop(line, lo, mid, r)
       IN IF left.state = "csv.Error" THEN left ELSE LineLoop(line, mid + 1, hi, left)

\* line after line, each with its end, up to a csv.Error; at the end of the file a record still
\* open is returned if it holds a field begun or an open quote
RECURSIVE ReaderLoop(_, _, _)
ReaderLoop(lines, k, r) ==
  IF r.state = "csv.Error" THEN r
  ELSE IF k > Len(lines)
  THEN IF r.state # "START_RECORD" /\ (r.field # <<>> \/ r.state = "IN_QUOTED_FIELD")
       THEN [r EXCEPT !.rows = Append(r.rows, Append(r.fields, r.field))]
       ELSE r
  ELSE ReaderLoop(lines, k + 1, EndLine(LineLoop(lines[k], 1, Len(lines[k]), r)))

\* csv.reader(csvfile) iterated to its end: the reader's last state, which is
\* "csv.Error" when it raised, and the rows it gave, each a list of fields
csv_reader(text) ==
  ReaderLoop(FileLines(text), 1, [state |-> "START_RECORD", field |-> <<>>, fields |-> <<>>,
                       rows |-> <<>>])

----------------------------------------------------------------------------
(* read_nfa_transitions_csv, write_dfa_to_csv, get_alphabet_from_transitions *)
(* and write_dfa_accept_to_json                                             *)

\* if not row or row[0].strip().startswith("//"); if len(row) != 3; except ValueError
RowSkipped(row) ==
  \/ row = <<>>
  \/ LET head == Strip(row[1]) IN Len(head) >= 2 /\ head[1] = "/" /\ head[2] = "/"
  \/ Len(row) # 3
  \/ IntFails(Strip(row[1]))
  \/ IntFails(Strip(row[3]))

\* input_str[0] if input_str else None
RowSymbol(row) == LET input_str == Strip(row[2]) IN IF input_str # <<>> THEN input_str[1] ELSE None

\* transitions.setdefault(key, []).append(to)
AppendTarget(transitions, key, to) ==
  IF key \in DictKeys(transitions)
  THEN DictSet(transitions, key, Append(DictGet(transitions, key), to))
  ELSE Append(transitions, <<key, <<to>>>>)

\* for row in reader: the table after the first n rows
RECURSIVE ReadRows(_, _)
ReadRows(rows, n) ==
  IF n = 0 THEN <<>>
  ELSE LET transitions == ReadRows(rows, n - 1)
           row == rows[n]
       IN IF RowSkipped(row) THEN transitions
          ELSE AppendTarget(transitions, <<Int_(Strip(row[1])), RowSymbol(row)>>,
                            Int_(Strip(row[3])))

\* read_nfa_transitions_csv on a file with this text: the error it raises
\* (the reader's csv.Error, which except ValueError does not catch), or None
\* and the table it returns
read_nfa_transitions_csv(text) ==
  LET reader == csv_reader(text)
  IN IF reader.state = "csv.Error"
     THEN [error |-> "csv.Error", transitions |-> <<>>]
     ELSE [error |-> None, transitions |-> ReadRows(reader.rows, Len(reader.rows))]

Header == << <<"F", "r", "o", "m">>, <<"I", "n", "p", "u", "t">>, <<"T", "o">> >>

RECURSIVE WriteItems(_)
WriteItems(items) ==
  IF items = <<>> THEN <<>>
  ELSE LET from_state == Head(items)[1][1]
           input_symbol == Head(items)[1][2]
           to_state == Head(items)[2]
       IN writerow(<<Str(from_state), <<input_symbol>>, Str(to_state)>>)
            \o WriteItems(Tail(items))

\* the text write_dfa_to_csv leaves in the file
write_dfa_to_csv(D) == writerow(Header) \o WriteItems(D.transitions)

HexDigit == <<"0", "1", "2", "3", "4", "5", "6", "7", "8", "9", "a", "b", "c", "d", "e", "f">>

\* '\\u{0:04x}'.format(n)
UEscape(n) ==
  <<"\\", "u", HexDigit[((n \div 4096) % 16) + 1], HexDigit[((n \div 256) % 16) + 1],
    HexDigit[((n \div 16) % 16) + 1], HexDigit[(n % 16) + 1]>>

\* one character of a JSON string under ensure_ascii: the short escapes of
\* ESCAPE_DCT, the characters from the space to the tilde as they are, \uXXXX
\* for every other one
EscapeChar(c) ==
  IF c = "\"" THEN <<"\\", "\"">>
  ELSE IF c = "\\" THEN <<"\\", "\\">>
  ELSE IF c = "\n" THEN <<"\\", "n">>
  ELSE IF c = "\r" THEN <<"\\", "r">>
  ELSE IF c = "\t" THEN <<"\\", "t">>
  ELSE IF c = "\f" THEN <<"\\", "f">>
  ELSE IF c = chr(8) THEN <<"\\", "b">>
  ELSE IF ord(c) \in 32..126 THEN <<c>>
  ELSE UEscape(ord(c))

RECURSIVE EscapeChars(_)
EscapeChars(label) ==
  IF label = <<>> THEN <<>> ELSE EscapeChar(Head(label)) \o EscapeChars(Tail(label))

\* a str as json.dump writes it
encode_basestring_ascii(label) == <<"\"">> \o EscapeChars(label) \o <<"\"">>

RECURSIVE DumpPairs(_)
DumpPairs(data) ==
  IF data = <<>> THEN <<>>
  ELSE <<"[">> \o Str(Head(data)[1]) \o <<",", " ">>
       \o encode_basestring_ascii(Head(data)[2]) \o <<"]">>
       \o (IF Len(data) > 1 THEN <<",", " ">> ELSE <<>>) \o DumpPairs(Tail(data))

\* json.dump(data, json_file), data the list of [state, label] pairs
json_dump(data) == <<"[">> \o DumpPairs(data) \o <<"]">>

\* the text write_dfa_accept_to_json leaves in the file
write_dfa_accept_to_json(accept) == json_dump(accept)

\* sorted(alphabet), alphabet a set of symbols: a symbol is one character
\* (input_str[0], line 153), and strs compare by code point
RECURSIVE sorted(_)
sorted(symbols) ==
  IF symbols = {} THEN <<>>
  ELSE LET least == CHOOSE a \in symbols : \A b \in symbols : ord(a) <= ord(b)
       IN <<least>> \o sorted(symbols \ {least})

\* get_alphabet_from_transitions(transitions)
get_alphabet_from_transitions(transitions) ==
  LET alphabet_set == {k[2] : k \in DOMAIN transitions} \ {None}
  IN sorted(alphabet_set)

\* A state of the states-types file is a JSON number, [int |-> n], or a JSON
\* string, [str |-> its characters]; int(state) raises ValueError, or gives
\* the state
StateFails(state) == "str" \in DOMAIN state /\ IntFails(state.str)

StateInt(state) == IF "int" \in DOMAIN state THEN state.int ELSE Int_(state.str)

\* for state, label in finals: accept[int(state)] = label, after n pairs
RECURSIVE AcceptFrom(_, _)
AcceptFrom(finals, n) ==
  IF n = 0 THEN <<>>
  ELSE LET accept == AcceptFrom(finals, n - 1)
           key == StateInt(finals[n][1])
       IN DictSet(accept, key, finals[n][2])

\* read_zigzin_states_types on a file that json.load reads as data
read_zigzin_states_types(data) ==
  LET finals == IF "final" \in DOMAIN data THEN data["final"] ELSE <<>>
  IN IF \E n \in 1..Len(finals) : StateFails(finals[n][1]) THEN "ValueError"
     ELSE AcceptFrom(finals, Len(finals))

----------------------------------------------------------------------------
(* Transition files made of rows of every kind: rows the reader keeps      *)
(* (padded with whitespace or not), comments, empty rows, rows with too    *)
(* few or too many fields, rows with an endpoint that is no integer.  Each *)
(* row comes with the transition it stands for, or NoRow.                  *)

NoRow == <<>>
MaxCsvRows == 3

CsvRows ==
  {[fields |-> << <<"0">>, <<"a">>, <<"1">> >>, means |-> <<0, "a", 1>>],
   [fields |-> << <<"0">>, <<"a">>, <<"8">> >>, means |-> <<0, "a", 8>>],
   [fields |-> << <<"0">>, <<"a">>, <<"-", "1">> >>, means |-> <<0, "a", -1>>],
   [fields |-> << <<" ", "1", " ">>, <<" ", "b", " ">>, <<"0">> >>, means |-> <<1, "b", 0>>],
   [fields |-> << <<"1">>, <<>>, <<"8">> >>, means |-> <<1, None, 8>>],
   [fields |-> << <<chr(11), "0", chr(160)>>, <<chr(133)>>, <<chr(28), "1", chr(31)>> >>,
    means |-> <<0, None, 1>>],
   [fields |-> << <<"/", "/", " ", "n", "o", "t", "e">> >>, means |-> NoRow],
   [fields |-> << <<"/", "/", "0">>, <<"a">>, <<"1">> >>, means |-> NoRow],
   [fields |-> <<>>, means |-> NoRow],
   [fields |-> << <<"0">>, <<"a">> >>, means |-> NoRow],
   [fields |-> << <<"0">>, <<"a">>, <<"1">>, <<"8">> >>, means |-> NoRow],
   [fields |-> << <<"x">>, <<"a">>, <<"1">> >>, means |-> NoRow],
   [fields |-> << <<"0">>, <<"a">>, <<"1", ".", "5">> >>, means |-> NoRow],
   [fields |-> Header, means |-> NoRow]}

\* n times the character c
Repeat(c, n) == [i \in 1..n |-> c]

\* rows at the limits of int() and of the csv reader.  The endpoint 0...01
\* is the integer 1, written with as many digits as int() takes and with one
\* more; the endpoint x...x is no integer, as long as a field may be and one
\* character longer.
LongRows ==
  {[fields |-> << <<"0">>, <<"a">>, Repeat("0", default_max_str_digits - 1) \o <<"1">> >>,
    means |-> <<0, "a", 1>>],
   [fields |-> << <<"0">>, <<"a">>, Repeat("0", default_max_str_digits) \o <<"1">> >>,
    means |-> <<0, "a", 1>>],
   [fields |-> << <<"0">>, <<"a">>, Repeat("x", field_limit) >>, means |-> NoRow],
   [fields |-> << <<"0">>, <<"a">>, Repeat("x", field_limit + 1) >>, means |-> NoRow]}

\* files with one such row, alone or after a row the reader keeps
LongFiles ==
  {<<row>> : row \in LongRows}
    \cup {<<[fields |-> << <<"1">>, <<>>, <<"8">> >>, means |-> <<1, None, 8>>], row>> :
            row \in LongRows}

\* the text of a file with these rows, one per line
RECURSIVE RowsText(_)
RowsText(rows) ==
  IF rows = <<>> THEN <<>> ELSE writerow(Head(rows).fields) \o RowsText(Tail(rows))

----------------------------------------------------------------------------
(* The functions of the module called one after the other:                 *)
(* convert_nfa_to_dfa, write_dfa_to_csv and write_dfa_accept_to_json, then *)
(* read_nfa_transitions_csv on the transition file written.  The NFA and   *)
(* the alphabet are given to convert_nfa_to_dfa directly (any NFA object,  *)
(* any list of its symbols, a space, the delimiter and the quote character *)
(* among them), or they are made as __main__ makes them.                   *)

FileStates == {0, 1}
FileSymbols == {"a", " ", ",", Quote}
MaxFileRows == 2

\* labels, one with the characters json.dump escapes
FileLabel == [s \in FileStates |-> IF s = 0 THEN <<"L", "0">> ELSE <<"L", "\"", "1", "\\">>]

FileRows == FileStates \X (FileSymbols \cup {None}) \X FileStates

FileNfas ==
  {[transitions |-> BuildTransitions(rows), start |-> st,
    accept |-> LabelDict(Ascending(FileStates), FileLabel)] :
     rows \in SeqsUpTo(FileRows, MaxFileRows), st \in FileStates} \cup SampleNfas

SymbolsOf(N) == {k[2] : k \in DOMAIN N.transitions} \ {None}

\* the symbols of the NFA as a list, in every order
AlphabetsOf(N) ==
  {a \in SeqsUpTo(SymbolsOf(N), Cardinality(SymbolsOf(N))) :
     Len(a) = Cardinality(SymbolsOf(N)) /\ Range(a) = SymbolsOf(N)}

\* the transition files of __main__: files of at most MaxFileRows rows
MainFiles == {RowsText(rows) : rows \in SeqsUpTo(CsvRows, MaxFileRows)}

\* the states-types files of __main__, as json.load reads them: without
\* "final", with states given as numbers and as strings, with a state given
\* twice
MainTypes ==
  {[initial |-> 0],
   [initial |-> 0,
    final |-> << <<[str |-> <<"1">>], <<"K", "W">>>>, <<[int |-> 8], <<"I", "D">>>> >>],
   [initial |-> 0,
    final |-> << <<[int |-> 0], <<"A">>>>, <<[str |-> <<" ", "0">>], <<"B", "\"">>>>,
                 <<[int |-> -1], <<"L", "1">>>> >>]}

\* the dict read from the file, as the transitions of an NFA
TransOf(table) == [k \in DictKeys(table) |-> DictGet(table, k)]

\* nfa = NFA(transitions, 0, accept)
MainNfa(text, data) ==
  [transitions |-> TransOf(read_nfa_transitions_csv(text).transitions), start |-> 0,
   accept |-> read_zigzin_states_types(data)]

InitFiles ==
  /\ \/ /\ nfa \in FileNfas
        /\ alphabet \in AlphabetsOf(nfa)
     \/ \E text \in MainFiles, data \in MainTypes :
          /\ read_nfa_transitions_csv(text).error = None
          /\ nfa = MainNfa(text, data)
          /\ alphabet = get_alphabet_from_transitions(nfa.transitions)
  /\ pc = "start"
  /\ Idle

\* write_dfa_to_csv(dfa, path)
WriteCsv ==
  /\ pc = "done"
  /\ csvfile' = write_dfa_to_csv(dfa)
  /\ pc' = "csv written"
  /\ UNCHANGED <<inputVars, dfa_transitions, dfa_accept, state_mapping, dfa_states,
                 queue, current_index, sym_pos, dfa, first, cl_states, cl_result,
                 cl_again, jsonfile, csv_table, stepVars>>

\* write_dfa_accept_to_json(dfa.accept, path)
WriteJson ==
  /\ pc = "csv written"
  /\ jsonfile' = write_dfa_accept_to_json(dfa.accept)
  /\ pc' = "json written"
  /\ UNCHANGED <<inputVars, dfa_transitions, dfa_accept, state_mapping, dfa_states,
                 queue, current_index, sym_pos, dfa, first, cl_states, cl_result,
                 cl_again, csvfile, csv_table, stepVars>>

\* read_nfa_transitions_csv(path) on the file write_dfa_to_csv wrote
ReadBack ==
  /\ pc = "json written"
  /\ LET read == read_nfa_transitions_csv(csvfile)
     IN IF read.error = None
        THEN csv_table' = read.transitions /\ pc' = "read back"
        ELSE csv_table' = csv_table /\ pc' = read.error
  /\ UNCHANGED <<inputVars, dfa_transitions, dfa_accept, state_mapping, dfa_states,
                 queue, current_index, sym_pos, dfa, first, cl_states, cl_result,
                 cl_again, csvfile, jsonfile, stepVars>>

NextFiles == Next \/ WriteCsv \/ WriteJson \/ ReadBack

SpecFiles == InitFiles /\ [][NextFiles]_vars

----------------------------------------------------------------------------
(* read_nfa_transitions_csv on a transition file of at most MaxCsvRows     *)
(* rows, or on a file with a row at a limit.                               *)

InitRows ==
  /\ rows_in \in SeqsUpTo(CsvRows, MaxCsvRows) \cup LongFiles
  /\ nfa = [transitions |-> <<>>, start |-> 0, accept |-> <<>>]
  /\ alphabet = <<>>
  /\ pc = "rows"
  /\ dfa_transitions = <<>>
  /\ dfa_accept = <<>>
  /\ state_mapping = <<>>
  /\ dfa_states = <<>>
  /\ queue = <<>>
  /\ current_index = -1
  /\ sym_pos = 0
  /\ dfa = NoDfa
  /\ first = NoRun
  /\ cl_states = NewSet
  /\ cl_result = NewSet
  /\ cl_again = NewSet
  /\ csvfile = <<>>
  /\ jsonfile = <<>>
  /\ csv_table = <<>>
  /\ cl_stack = <<>>
  /\ cl_pushed = <<>>

\* the file the rows make
MakeFile ==
  /\ pc = "rows"
  /\ csvfile' = RowsText(rows_in)
  /\ pc' = "file"
  /\ UNCHANGED <<inputVars, dfa_transitions, dfa_accept, state_mapping, dfa_states,
                 queue, current_index, sym_pos, dfa, first, cl_states, cl_result,
                 cl_again, jsonfile, csv_table, stepVars>>

\* transitions = read_nfa_transitions_csv(path)
ReadFile ==
  /\ pc = "file"
  /\ LET read == read_nfa_transitions_csv(csvfile)
     IN IF read.error = None
        THEN csv_table' = read.transitions /\ pc' = "file read"
        ELSE csv_table' = csv_table /\ pc' = read.error
  /\ UNCHANGED <<inputVars, dfa_transitions, dfa_accept, state_mapping, dfa_states,
                 queue, current_index, sym_pos, dfa, first, cl_states, cl_result,
                 cl_again, csvfile, jsonfile, stepVars>>

NextRows == MakeFile \/ ReadFile

SpecRows == InitRows /\ [][NextRows]_vars

----------------------------------------------------------------------------
(* Reference semantics of automata, on mathematical sets *)

EpsStep(N, S) == S \cup UNION {Range(TransGet(N.transitions, s, None)) : s \in S}

\* the states reachable from S by zero or more epsilon transitions
RECURSIVE EpsReach(_, _)
EpsReach(N, S) ==
  LET T == EpsStep(N, S) IN IF T = S THEN S ELSE EpsReach(N, T)

SymStep(N, S, a) == UNION {Range(TransGet(N.transitions, s, a)) : s \in S}

RECURSIVE NfaRun(_, _, _)
NfaRun(N, S, w) ==
  IF w = <<>> THEN S
  ELSE NfaRun(N, EpsReach(N, SymStep(N, S, Head(w))), Tail(w))

NfaAccepts(N, w) == NfaRun(N, EpsReach(N, {N.start}), w) \cap DictKeys(N.accept) # {}

\* the run of a word the DFA has no transition for: no state (the ids of
\* the DFA's states are indexes of dfa_states, none below 0)
Reject == NoDfa.start

RECURSIVE DfaRun(_, _, _)
DfaRun(D, q, w) ==
  IF w = <<>> THEN q
  ELSE IF <<q, Head(w)>> \in DictKeys(D.transitions)
       THEN DfaRun(D, DictGet(D.transitions, <<q, Head(w)>>), Tail(w))
       ELSE Reject

DfaAccepts(D, w) == DfaRun(D, D.start, w) \in DictKeys(D.accept)

MaxWord == 3
Words == SeqsUpTo(Range(alphabet), MaxWord)

\* the ids of the DFA states discovered so far
Ids == 0..(Len(dfa_states) - 1)
StateSet(i) == Elems(dfa_states[i + 1])

----------------------------------------------------------------------------
(* Claims about convert_nfa_to_dfa *)

\* C1: the returned DFA accepts a word over the alphabet iff the NFA does
C1_LanguageEquivalent ==
  pc = "done" => \A w \in Words : DfaAccepts(dfa, w) <=> NfaAccepts(nfa, w)

C1_Witness ==
  /\ pc = "done"
  /\ \E k \in DOMAIN nfa.transitions : k[2] = None
  /\ \E k \in DOMAIN nfa.transitions : Len(nfa.transitions[k]) >= 2
  /\ \E w \in Words : Len(w) >= 2 /\ DfaAccepts(dfa, w) /\ NfaAccepts(nfa, w)
  /\ \E w \in Words : DfaRun(dfa, dfa.start, w) = Reject /\ ~NfaAccepts(nfa, w)

\* C2: a DFA state id is a key of dfa.accept iff its state set holds a key of
\* nfa.accept, at every point of the run and in the returned DFA
C2_AcceptIffIntersects ==
  /\ pc # "start" =>
       /\ DictKeys(dfa_accept) \subseteq Ids
       /\ \A i \in Ids : i \in DictKeys(dfa_accept) <=> StateSet(i) \cap DictKeys(nfa.accept) # {}
  /\ pc = "done" =>
       /\ dfa.accept = dfa_accept
       /\ (DictKeys(nfa.accept) = {} => dfa.accept = <<>>)

C2_Witness ==
  /\ pc = "done"
  /\ Len(dfa_states) >= 3
  /\ 0 \in DictKeys(dfa.accept)
  /\ \E i \in Ids : i \notin DictKeys(dfa.accept) /\ StateSet(i) \cap DictKeys(nfa.accept) = {}
  /\ \E i \in Ids : i # 0 /\ i \in DictKeys(dfa.accept)

\* C3: the label of an accepting DFA state is the labels of the NFA accept
\* states of its state set, in ascending NFA state id, joined with ", "
C3_LabelsAscending ==
  pc # "start" =>
    \A n \in 1..Len(dfa_accept) :
      LET S == Ascending(StateSet(dfa_accept[n][1]) \cap DictKeys(nfa.accept))
      IN dfa_accept[n][2] = Join([i \in 1..Len(S) |-> DictGet(nfa.accept, S[i])])

\* C4: state_mapping[dfa_states[i]] = i for every id, no two ids stand for the
\* same state set, and an id once given to a state set stays with it
C4_MappingInv ==
  /\ \A i \in Ids : StateSet(i) \in DOMAIN state_mapping /\ state_mapping[StateSet(i)] = i
  /\ \A i, j \in Ids : StateSet(i) = StateSet(j) => i = j
  /\ \A k \in DOMAIN state_mapping : state_mapping[k] \in Ids

C4_MappingStable ==
  /\ \A k \in DOMAIN state_mapping :
       k \in DOMAIN state_mapping' /\ state_mapping'[k] = state_mapping[k]
  /\ Len(dfa_states') >= Len(dfa_states)
  /\ \A i \in 1..Len(dfa_states) : dfa_states'[i] = dfa_states[i]

C4_MappingInjectiveStable == [](C4_MappingInv) /\ [][C4_MappingStable]_vars

C4_Witness ==
  /\ pc = "done"
  /\ Len(dfa_states) >= 2
  /\ Len(dfa.transitions) > Len(dfa_states)
  /\ \E i \in Ids : Cardinality(StateSet(i)) >= 2

\* C8: DFA state 0 is the epsilon closure of {nfa.start} from its registration
\* to the end of the run, and the returned DFA starts in state 0
C8_StartStateIsClosure ==
  /\ pc # "start" =>
       /\ Len(dfa_states) >= 1
       /\ StateSet(0) = EpsReach(nfa, {nfa.start})
       /\ state_mapping[StateSet(0)] = 0
  /\ pc = "done" => dfa.start = 0

C8_Witness ==
  /\ pc = "done"
  /\ nfa.start # 0
  /\ Cardinality(StateSet(0)) >= 2
  /\ Len(dfa_states) >= 2
  /\ dfa.start = 0

\* two NFA objects that are equal: the same start state and equal dicts,
\* which hold the same items in whatever order
SameNfa(M, N) ==
  /\ M.transitions = N.transitions
  /\ M.start = N.start
  /\ DictKeys(M.accept) = DictKeys(N.accept)
  /\ \A q \in DictKeys(M.accept) : DictGet(M.accept, q) = DictGet(N.accept, q)

\* C5: a second call on the same NFA and the same alphabet order returns the
\* same DFA: same numbering of the state sets, same transition table in the
\* same order, same accept list with the same labels in the same order; so
\* it is whatever the order nfa.accept holds its items in, the one thing
\* that can differ between two NFA objects that are equal
C5_SameResultTwice ==
  (pc = "done" /\ first # NoRun /\ SameNfa(nfa, first.nfa)) =>
    (dfa = first.dfa /\ dfa_states = first.states)

\* the second call has returned; its nfa.accept was in another order and its
\* nfa_accept_set was laid out otherwise than the first call's, and a label
\* is joined from the labels of two accept states
C5_Witness ==
  /\ pc = "done"
  /\ first # NoRun
  /\ KeyList(nfa.accept) # KeyList(first.nfa.accept)
  /\ nfa_accept_set(nfa) # nfa_accept_set(first.nfa)
  /\ Len(dfa.transitions) >= 3
  /\ Len(dfa_states) >= 3
  /\ \E n \in 1..Len(dfa.accept) :
       Cardinality(StateSet(dfa.accept[n][1]) \cap DictKeys(nfa.accept)) >= 2

----------------------------------------------------------------------------
(* Claims about epsilon_closure *)

ClosureReturned == pc \in {"closed", "closed twice"}

\* C6: epsilon_closure(nfa, S) is exactly the set of states reachable from S
\* by zero or more epsilon transitions: it contains S, it is closed under
\* epsilon transitions, and it holds nothing else
C6_ClosureExact ==
  ClosureReturned =>
    /\ Elems(cl_states) \subseteq Elems(cl_result)
    /\ \A s \in Elems(cl_result) :
         Range(TransGet(nfa.transitions, s, None)) \subseteq Elems(cl_result)
    /\ Elems(cl_result) = EpsReach(nfa, Elems(cl_states))

C6_Witness ==
  /\ ClosureReturned
  /\ Cardinality(Elems(cl_states)) >= 2
  /\ Cardinality(Elems(cl_result)) > Cardinality(Elems(cl_states))
  /\ \E s \in Elems(cl_result) \ Elems(cl_states) :
       s \notin EpsStep(nfa, Elems(cl_states))

\* C7: epsilon_closure(nfa, epsilon_closure(nfa, S)) = epsilon_closure(nfa, S)
C7_ClosureIdempotent ==
  pc = "closed twice" => Elems(cl_again) = Elems(cl_result)

C7_Witness ==
  /\ pc = "closed twice"
  /\ Elems(cl_again) = Elems(cl_result)
  /\ Cardinality(Elems(cl_result)) >= Cardinality(Elems(cl_states)) + 2
  /\ \E s \in Elems(cl_result) : s \in Range(TransGet(nfa.transitions, s, None))

----------------------------------------------------------------------------
(* Claims about the files *)

\* C9: the table read back from the file write_dfa_to_csv wrote has the keys
\* of dfa.transitions, each with the one target dfa.transitions gives it
C9_RoundTrip ==
  pc = "read back" =>
    /\ DictKeys(csv_table) = DictKeys(dfa.transitions)
    /\ \A k \in DictKeys(dfa.transitions) :
         DictGet(csv_table, k) = <<DictGet(dfa.transitions, k)>>

\* the place of a symbol in the alphabet
Pos(a) == CHOOSE i \in 1..Len(alphabet) : alphabet[i] = a

\* the transitions ordered by source id, then by the alphabet
RECURSIVE ItemsFrom(_, _, _)
ItemsFrom(D, i, j) ==
  IF i >= Len(dfa_states) THEN <<>>
  ELSE IF j > Len(alphabet) THEN ItemsFrom(D, i + 1, 1)
  ELSE IF <<i, alphabet[j]>> \in DictKeys(D)
       THEN << <<<<i, alphabet[j]>>, DictGet(D, <<i, alphabet[j]>>)>> >> \o ItemsFrom(D, i, j + 1)
       ELSE ItemsFrom(D, i, j + 1)

\* the accept pairs ordered by state id
PairsById(A) ==
  LET ids == Ascending(DictKeys(A)) IN [n \in 1..Len(ids) |-> <<ids[n], DictGet(A, ids[n])>>]

\* C10: the transitions are recorded, and written to the CSV file, by
\* non-decreasing source id and, for one source, in the alphabet's order; the
\* accept pairs are recorded, and written to the JSON file, by increasing id
C10_DiscoveryOrder ==
  /\ pc # "start" =>
       /\ \A m, n \in 1..Len(dfa_transitions) :
            m < n =>
              \/ dfa_transitions[m][1][1] < dfa_transitions[n][1][1]
              \/ /\ dfa_transitions[m][1][1] = dfa_transitions[n][1][1]
                 /\ Pos(dfa_transitions[m][1][2]) < Pos(dfa_transitions[n][1][2])
       /\ \A m, n \in 1..Len(dfa_accept) : m < n => dfa_accept[m][1] < dfa_accept[n][1]
  /\ pc \in {"csv written", "json written", "read back"} =>
       csvfile = writerow(Header) \o WriteItems(ItemsFrom(dfa.transitions, 0, 1))
  /\ pc \in {"json written", "read back"} =>
       jsonfile = json_dump(PairsById(dfa.accept))

C10_Witness ==
  /\ pc = "json written"
  /\ Len(dfa.accept) >= 2
  /\ Len(dfa_states) >= 3
  /\ \E m, n \in 1..Len(dfa.transitions) :
       /\ m < n
       /\ dfa.transitions[m][1][1] = dfa.transitions[n][1][1]
       /\ dfa.transitions[n][1][1] > 0
  /\ \E n \in 1..Len(dfa.transitions) : dfa.transitions[n][2] < dfa.transitions[n][1][1]

----------------------------------------------------------------------------
(* Further claims about convert_nfa_to_dfa *)

\* the start state of the NFA is the source of no transition
StartIsolated == \A k \in DOMAIN nfa.transitions : k[1] # nfa.start

\* C11: when the NFA's start state has no outgoing transition, the DFA
\* returned has the one state 0, made of the start state alone, and no
\* transition, whatever the alphabet and the other transitions
C11_IsolatedStart ==
  (pc = "done" /\ StartIsolated) =>
    /\ Len(dfa_states) = 1
    /\ StateSet(0) = {nfa.start}
    /\ dfa.start = 0
    /\ dfa.transitions = <<>>

C11_Witness ==
  /\ pc = "done"
  /\ StartIsolated
  /\ \E k \in DOMAIN nfa.transitions : k[2] \in Range(alphabet)
  /\ \E k \in DOMAIN nfa.transitions : k[2] = None
  /\ Len(alphabet) = 2
  /\ dfa.transitions = <<>>

\* C12: the sample NFA with the alphabet {a, b} in either order gives the
\* three states {0,1}, {2,3}, {4}, the transitions (0,a)->1 and (1,b)->2
\* and nothing else, and the accept table {2: "accept"}
C12_SampleDfa ==
  (pc = "done" /\ nfa = SampleNfa /\ Range(alphabet) = {"a", "b"}) =>
    /\ Len(dfa_states) = 3
    /\ StateSet(0) = {0, 1}
    /\ StateSet(1) = {2, 3}
    /\ StateSet(2) = {4}
    /\ dfa.transitions = << <<<<0, "a">>, 1>>, <<<<1, "b">>, 2>> >>
    /\ dfa.accept = << <<2, <<"a", "c", "c", "e", "p", "t">>>> >>
    /\ dfa.start = 0

C12_Witness ==
  /\ pc = "done"
  /\ nfa = SampleNfa
  /\ alphabet = <<"b", "a">>
  /\ Len(dfa.transitions) = 2
  /\ Len(dfa_states) = 3

\* C13: at the end, (i, a) is a key of dfa.transitions exactly when the
\* move of state i's set on a is not empty, and then its target is the
\* state whose set is the epsilon closure of the move; every key and
\* target is a discovered id and every symbol is of the alphabet
C13_TransitionsExact ==
  pc = "done" =>
    /\ \A i \in Ids, a \in Range(alphabet) :
         LET T == SymStep(nfa, StateSet(i), a)
         IN IF T = {}
            THEN <<i, a>> \notin DictKeys(dfa.transitions)
            ELSE /\ <<i, a>> \in DictKeys(dfa.transitions)
                 /\ DictGet(dfa.transitions, <<i, a>>) \in Ids
                 /\ StateSet(DictGet(dfa.transitions, <<i, a>>)) = EpsReach(nfa, T)
    /\ \A n \in 1..Len(dfa.transitions) :
         /\ dfa.transitions[n][1][1] \in Ids
         /\ dfa.transitions[n][1][2] \in Range(alphabet)
         /\ dfa.transitions[n][2] \in Ids

C13_Witness ==
  /\ pc = "done"
  /\ Len(dfa_states) >= 2
  /\ Len(alphabet) = 2
  /\ \E i \in Ids, a \in Range(alphabet) : SymStep(nfa, StateSet(i), a) = {}
  /\ \E i \in Ids, a \in Range(alphabet) :
       /\ SymStep(nfa, StateSet(i), a) # {}
       /\ EpsReach(nfa, SymStep(nfa, StateSet(i), a)) # SymStep(nfa, StateSet(i), a)
       /\ DictGet(dfa.transitions, <<i, a>>) # i

\* C19: with an empty alphabet the call returns the DFA made of the start
\* state 0 alone, with no transition, for every NFA
C19_EmptyAlphabet ==
  /\ (alphabet = <<>> /\ pc = "for") => sym_pos > Len(alphabet)
  /\ (alphabet = <<>> /\ pc = "done") =>
       /\ Len(dfa_states) = 1
       /\ dfa.start = 0
       /\ dfa.transitions = <<>>
       /\ DictKeys(dfa.accept) \subseteq {0}

C19_Witness ==
  /\ alphabet = <<>>
  /\ pc = "done"
  /\ \E k \in DOMAIN nfa.transitions : k[1] = nfa.start /\ k[2] # None
  /\ nfa.start # 0
  /\ dfa.accept # <<>>

\* C20: every discovered state set is non-empty and closed under the
\* epsilon transitions of the NFA, at every point of the run
C20_StateSetsClosed ==
  \A i \in Ids :
    /\ StateSet(i) # {}
    /\ EpsStep(nfa, StateSet(i)) \subseteq StateSet(i)

C20_Witness ==
  /\ pc = "for"
  /\ \E i \in Ids \ {0} :
       /\ Cardinality(StateSet(i)) >= 2
       /\ \E s \in StateSet(i) : TransGet(nfa.transitions, s, None) # <<>>

\* what C14 says of every state: the ids given are 0..n-1, one per state
\* set, and the queue holds the ids not yet dequeued, in increasing order
C14_IdsInv ==
  pc # "start" =>
    /\ {state_mapping[k] : k \in DOMAIN state_mapping} = Ids
    /\ Cardinality(DOMAIN state_mapping) = Len(dfa_states)
    /\ queue = [k \in 1..(Len(dfa_states) - 1 - current_index) |-> current_index + k]

\* what C14 says of every step: a new state set gets the next unused id and
\* is enqueued once; a step that finds a known set keeps the ids and the
\* queue and records the known id; a dequeue takes the next id
C14_IdsStep ==
  /\ Len(dfa_states') \in {Len(dfa_states), Len(dfa_states) + 1}
  /\ Len(dfa_states') = Len(dfa_states) + 1 =>
       LET new == Elems(dfa_states'[Len(dfa_states')])
       IN /\ new \notin DOMAIN state_mapping
          /\ state_mapping'[new] = Len(dfa_states)
          /\ queue' = Append(queue, Len(dfa_states))
          /\ pc # "start" => dfa_transitions'[Len(dfa_transitions')][2] = Len(dfa_states)
  /\ Len(dfa_states') = Len(dfa_states) =>
       /\ state_mapping' = state_mapping
       /\ \/ queue' = queue
          \/ /\ queue # <<>>
             /\ queue' = Tail(queue)
             /\ current_index' = Head(queue)
             /\ current_index' = current_index + 1
       /\ dfa_transitions' # dfa_transitions =>
            /\ queue' = queue
            /\ \E k \in DOMAIN state_mapping :
                 /\ k = EpsReach(nfa, SymStep(nfa, StateSet(current_index), symbol))
                 /\ DictGet(dfa_transitions', <<current_index, symbol>>) = state_mapping[k]

\* C14: ids are given in discovery order as the next unused integer, with
\* no gap; a new state set is enqueued exactly once, a known one reuses its
\* id and is not enqueued again, and states are dequeued in increasing id
C14_IdsInDiscoveryOrder == [](C14_IdsInv) /\ [][C14_IdsStep]_vars

C14_Witness ==
  /\ pc = "done"
  /\ Len(dfa_states) >= 3
  /\ \E n \in 1..Len(dfa.transitions) :
       /\ dfa.transitions[n][2] < dfa.transitions[n][1][1]
       /\ dfa.transitions[n][2] > 0

----------------------------------------------------------------------------
(* Claims about the steps of epsilon_closure *)

\* the step by step run returns what the epsilon_closure operator computes
ClosureStepsAgree ==
  pc = "closure returned" => cl_result = epsilon_closure(nfa, cl_states)

\* no state is pushed twice inside the loop, and no seed is pushed there
C15_PushedOnce ==
  /\ \A m, n \in 1..Len(cl_pushed) : m # n => cl_pushed[m] # cl_pushed[n]
  /\ pc # "closure call" => Range(cl_pushed) \cap Elems(cl_states) = {}
  /\ Range(cl_pushed) \subseteq Elems(cl_result)

\* a state pushed by a pass of the loop was not in the closure before it
C15_PushedNew ==
  \A n \in (Len(cl_pushed) + 1)..Len(cl_pushed') : cl_pushed'[n] \notin Elems(cl_result)

\* C15: epsilon_closure returns, epsilon cycles and self-loops included, and
\* inside its loop pushes each state at most once and never a state that is
\* in the closure already
C15_ClosureTerminates ==
  /\ <>(pc = "closure returned")
  /\ [](C15_PushedOnce)
  /\ [][C15_PushedNew]_vars

C15_Witness ==
  /\ pc = "closure returned"
  /\ \E s \in Range(cl_pushed) : s \in Range(TransGet(nfa.transitions, s, None))
  /\ \E s \in Range(cl_pushed), t \in Elems(cl_states) :
       /\ t \in Range(TransGet(nfa.transitions, s, None))
       /\ s \in Range(TransGet(nfa.transitions, t, None))

----------------------------------------------------------------------------
(* Termination of convert_nfa_to_dfa *)

\* the states an NFA mentions: its start, the ends of its transitions, its accept states
StatesOf(N) ==
  {N.start} \cup {k[1] : k \in DOMAIN N.transitions}
            \cup UNION {Range(N.transitions[k]) : k \in DOMAIN N.transitions}
            \cup DictKeys(N.accept)

\* never more DFA states than subsets of NFA states; at the end the queue is
\* empty and the last id was dequeued
C16_Bounded ==
  /\ Len(dfa_states) <= 2 ^ Cardinality(StatesOf(nfa))
  /\ pc = "done" => queue = <<>> /\ current_index = Len(dfa_states) - 1

\* the ids are dequeued one after the other, each one once
C16_DequeuedOnce ==
  current_index' # current_index =>
    /\ current_index' = current_index + 1
    /\ current_index' \in Ids
    /\ current_index' \notin Range(queue')

\* C16: the call returns for every NFA and alphabet: the queue becomes
\* empty, each discovered state is dequeued exactly once, and there are
\* never more than 2^|NFA states| DFA states
C16_ConversionTerminates ==
  /\ <>(pc = "done")
  /\ [](C16_Bounded)
  /\ [][C16_DequeuedOnce]_vars

C16_Witness ==
  /\ pc = "done"
  /\ Len(dfa_states) >= 3
  /\ \E n \in 1..Len(dfa.transitions) : dfa.transitions[n][2] = dfa.transitions[n][1][1]
  /\ \E n \in 1..Len(dfa.transitions) : dfa.transitions[n][2] < dfa.transitions[n][1][1]
  /\ \E k \in DOMAIN nfa.transitions : k[2] = None

----------------------------------------------------------------------------
(* Unreachable NFA states *)

\* C17: no DFA state set holds an NFA state that the start state does not
\* reach, and the call on the NFA without the transitions and accept labels
\* of its unreachable states returns the same DFA
C17_UnreachableIgnored ==
  /\ \A i \in Ids : StateSet(i) \subseteq Reachable(nfa)
  /\ (pc = "done" /\ first # NoRun) =>
       /\ dfa = first.dfa
       /\ dfa_states = first.states
       /\ nfa = Pruned(first.nfa)

C17_Witness ==
  /\ pc = "done"
  /\ first # NoRun
  /\ \E q \in DictKeys(first.nfa.accept) : q \notin Reachable(first.nfa)
  /\ \E k \in DOMAIN first.nfa.transitions :
       k[1] \notin Reachable(first.nfa) /\ k[2] \in Range(alphabet)
  /\ Len(dfa_states) >= 2
  /\ dfa.accept # <<>>

----------------------------------------------------------------------------
(* Reading rows of every kind *)

\* the transitions the well-formed rows stand for, in their order
Kept(rows) ==
  LET kept == SelectSeq(rows, LAMBDA r : r.means # NoRow)
  IN [n \in 1..Len(kept) |-> kept[n].means]

\* the keys of these transitions, each at its first place
RECURSIVE KeysInOrder(_)
KeysInOrder(triples) ==
  IF triples = <<>> THEN <<>>
  ELSE LET before == KeysInOrder(SubSeq(triples, 1, Len(triples) - 1))
           key == <<triples[Len(triples)][1], triples[Len(triples)][2]>>
       IN IF key \in Range(before) THEN before ELSE Append(before, key)

\* the targets these transitions give a key, in their order
TargetsOf(triples, key) ==
  LET mine == SelectSeq(triples, LAMBDA t : <<t[1], t[2]>> = key)
  IN [n \in 1..Len(mine) |-> mine[n][3]]

\* the table built from these transitions alone
TableOf(triples) ==
  LET keys == KeysInOrder(triples)
  IN [n \in 1..Len(keys) |-> <<keys[n], TargetsOf(triples, keys[n])>>]

\* the rows within the limits: no field longer than the reader takes, no
\* endpoint with more digits than int() takes
WithinLimits(rows) ==
  \A n \in 1..Len(rows) : \A f \in 1..Len(rows[n].fields) :
    LET field == rows[n].fields[f]
    IN /\ Len(field) <= field_limit
       /\ Cardinality({i \in 1..Len(field) : field[i] \in Range(Digit)}) <= default_max_str_digits

\* on rows within the limits the reading is lenient: it returns the table
\* built from the well-formed rows alone
LenientWithinLimits ==
  /\ WithinLimits(rows_in) => pc # "csv.Error"
  /\ (pc = "file read" /\ WithinLimits(rows_in)) => csv_table = TableOf(Kept(rows_in))

\* C18: for any sequence of rows the reading ends without an error, and the
\* table read is the table built from the well-formed rows alone, in their
\* order; comment rows, empty rows, rows without three fields and rows with
\* a non-integer endpoint add nothing and change nothing; a row with an
\* empty Input field adds its target under (state, None)
C18_LenientRows ==
  /\ pc # "csv.Error"
  /\ pc = "file read" => csv_table = TableOf(Kept(rows_in))

====
